---- MODULE Spec2Model ----
(***************************************************************************)
(* State-machine model of the usage-metering and entitlement flow of the   *)
(* bid-compliance application: the client's usage listener, entitlement    *)
(* gate and transactional counter (App component) and the server's payment *)
(* webhook and customer-portal routes (server.cjs), over one document      *)
(* store.                                                                  *)
(***************************************************************************)
EXTENDS Integers, Sequences, FiniteSets, TLC

VARIABLES
    config,        \* server environment: which secrets/credentials are set
    store,         \* the document store: path -> [exists, data]
    checkoutLog,   \* history: per user, the checkout event written last and its deliveries
    wh,            \* webhook requests in flight on /api/webhook
    portal,        \* requests in flight on /api/create-portal-session
    an,            \* requests in flight on /api/analyze
    usageLimits,   \* per client: the React state usageLimits
    isPaywallOpen, \* per client: the React state isPaywallOpen
    errorMessage,  \* per client: the React state errorMessage
    listener,      \* per client: the usage listener (EFFECT 2)
    inc,           \* incrementUsage calls in flight
    app_id,        \* the page's global __app_id, or Undefined
    currentUser,   \* the React state currentUser: a login, or NoLogin (null)
    reportsHistory,  \* the React state reportsHistory: a sequence of reports
    reportsListener, \* the report history listener (EFFECT 3)
    reports,       \* the documents of the compliance_reports collection
    fetchCall      \* the fetchWithRetry call in flight

vars == <<config, store, checkoutLog, wh, portal, an, usageLimits, isPaywallOpen, errorMessage,
          listener, inc, app_id, currentUser, reportsHistory, reportsListener, reports,
          fetchCall>>

serverVars == <<wh, portal, an>>
clientVars == <<usageLimits, isPaywallOpen, errorMessage, listener, inc>>
historyVars == <<currentUser, reportsHistory, reportsListener, reports>>
pageVars == <<app_id, historyVars, fetchCall>>

---------------------------------------------------------------------------
\* Bounds of the model.

NumWebhooks == 2      \* webhook requests that may be in flight together
NumPortals == 1       \* portal requests that may be in flight together
NumAnalyzes == 2      \* analyze requests that may be in flight together
NumClients == 1       \* browser tabs of the signed-in user
NumIncs == 2          \* incrementUsage calls that may be issued
MaxInitChecks == 3    \* largest counter value of a record persisted before start
MaxRetries == 4       \* largest maxRetries fetchWithRetry is called with
NumReports == 2       \* reports that may be stored in the collection

Webhooks == 1 .. NumWebhooks
Portals == 1 .. NumPortals
Analyzes == 1 .. NumAnalyzes
Clients == 1 .. NumClients
Incs == 1 .. NumIncs

\* Values drawn for the inputs.
Users == {"u1", "u2"}
NoUser == "no-user"              \* client_reference_id / userId null or undefined
Customers == {"cus_1", "cus_2"}
NoCustomer == "no-customer"      \* session.customer null
Urls == {"https://billing/s1", "https://billing/s2"}
NoUrl == "no-url"
CHECKOUT_COMPLETED == "checkout.session.completed"
SUBSCRIPTION_DELETED == "customer.subscription.deleted"
EventTypes == {CHECKOUT_COMPLETED, SUBSCRIPTION_DELETED, "invoice.paid"}

---------------------------------------------------------------------------
\* Documents.  A document either does not exist or holds a record whose
\* fields are all optional (a JavaScript object).

NoData == [f \in {} |-> 0]
Absent == [exists |-> FALSE, data |-> NoData]
Doc(d) == [exists |-> TRUE, data |-> d]

Has(d, f) == f \in DOMAIN d

\* DocumentReference.set(data, {merge: true}): the fields given replace the
\* stored ones, every other stored field is kept; creates the document.
MergeSet(old, new) ==
    Doc([f \in (DOMAIN old.data) \cup (DOMAIN new) |->
            IF f \in DOMAIN new THEN new[f] ELSE old.data[f]])

\* server.cjs: collection('users').doc(userId).collection('usage_limits').doc('main_tracker')
ServerUsageDoc(userId) == <<"users", userId, "usage_limits", "main_tracker">>

\* The global __app_id of the page: a hosting page may define it, the
\* application's own build does not.
Undefined == "undefined"
AppIds == {"app-1", "app-2"}

\* App: doc(db, `artifacts/${appId}/users/${userId}/usage_limits`, 'main_tracker')
\* with appId = typeof __app_id !== 'undefined' ? __app_id : 'default-app-id'
APP_ID == "default-app-id"
getUsageDocRef(userId) ==
    LET appId == IF app_id # Undefined THEN app_id ELSE APP_ID
    IN  <<"artifacts", appId, "users", userId, "usage_limits", "main_tracker">>

\* App: collection(db, `artifacts/${appId}/compliance_reports`)
\* with appId = typeof __app_id !== 'undefined' ? '__app_id' : 'default-app-id'
\* (the first branch is the string literal, not the global's value)
getReportsCollectionRef ==
    LET appId == IF app_id # Undefined THEN "__app_id" ELSE APP_ID
    IN  <<"artifacts", appId, "compliance_reports">>

\* The browser's signed-in (anonymous) user: all tabs share it.
ClientUser == "u1"

DocPaths == {ServerUsageDoc(u) : u \in Users} \cup {getUsageDocRef(ClientUser)}

---------------------------------------------------------------------------
\* Server: /api/webhook  (server.cjs 68-98)
\*
\* A request slot holds the handler's locals while it runs and the response
\* once it has ended.  verified: "none" (constructEvent not reached), "failed"
\* (it threw), "ok" (it returned the event).  userId and customer are the
\* session's client_reference_id and customer of the write of line 83-85.
\* cancelled: the customer of the subscription (line 91) of a verified
\* customer.subscription.deleted event the handler has gone through.

\* No checkout event was written yet for a user.
NoCheckout == [customer |-> NoCustomer, deliveries |-> 0]

IdleWebhook ==
    [pc |-> "idle", verified |-> "none", userId |-> NoUser, customer |-> NoCustomer,
     status |-> 0, body |-> "none", sent |-> 0, cancelled |-> NoCustomer]

\* stripe.webhooks.constructEvent(rawBody, sig, STRIPE_WEBHOOK_SECRET) returns
\* the event only for a signature made with the configured secret.
constructEventOk(sigValid) == sigValid /\ config.STRIPE_WEBHOOK_SECRET

\* The object written on checkout.session.completed (line 85).
CheckoutData(stripeCustomerId) ==
    [isSubscribed |-> TRUE, stripeCustomerId |-> stripeCustomerId]

\* Mutant of CheckoutWrite: set() without {merge: true} replaces the document.
CheckoutWrite_Overwrite(old, stripeCustomerId) == Doc(CheckoutData(stripeCustomerId))

\* Mutant of CheckoutWrite: the handler also counts the events it has seen.
CheckoutWrite_CountsEvents(old, stripeCustomerId) ==
    MergeSet(old, [isSubscribed |-> TRUE, stripeCustomerId |-> stripeCustomerId,
                   checkouts |-> (IF Has(old.data, "checkouts")
                                  THEN old.data.checkouts ELSE 0) + 1])

\* The write of line 83-85 applied to a stored document.
CheckoutWrite(old, stripeCustomerId) == MergeSet(old, CheckoutData(stripeCustomerId))

\* Mutant of SendWebhookError: the error text is sent without status(400).
SendWebhookError_NoStatus(req) ==
    [req EXCEPT !.pc = "done", !.status = 200, !.body = "Webhook Error",
                !.sent = @ + 1]

\* line 75: return res.status(400).send(`Webhook Error: ...`)
SendWebhookError(req) ==
    [req EXCEPT !.pc = "done", !.status = 400, !.body = "Webhook Error",
                !.sent = @ + 1]

\* line 97: res.send()
SendAck(req) ==
    [req EXCEPT !.pc = "done", !.status = 200, !.body = "empty", !.sent = @ + 1,
                !.userId = NoUser, !.customer = NoCustomer]

\* The handler up to its first suspension point.  require('stripe')(undefined)
\* throws in the library versions that validate the key at construction and
\* returns a client in the others: both outcomes are kept (ctorThrows).
WebhookReceive(w, sigValid, type, userId, customer, ctorThrows) ==
    /\ wh[w].pc = "idle"
    /\ \A earlier \in 1 .. w - 1 : wh[earlier].pc # "idle"    \* requests are numbered in order
    /\ wh' = [wh EXCEPT ![w] =
         IF ~config.STRIPE_SECRET_KEY /\ ctorThrows
         THEN \* line 70 throws outside any try: the async handler rejects
              [IdleWebhook EXCEPT !.pc = "rejected"]
         ELSE IF ~constructEventOk(sigValid)
         THEN SendWebhookError([IdleWebhook EXCEPT !.verified = "failed"])
         ELSE IF type = CHECKOUT_COMPLETED /\ userId # NoUser /\ config.adminApps
         THEN \* line 83: await ...set(...)
              [IdleWebhook EXCEPT !.verified = "ok", !.pc = "writing",
                                  !.userId = userId, !.customer = customer]
         ELSE \* line 90-95 does nothing with the subscription
              SendAck([IdleWebhook EXCEPT
                         !.verified = "ok",
                         !.cancelled = IF type = SUBSCRIPTION_DELETED THEN customer
                                       ELSE NoCustomer])]
    /\ UNCHANGED <<config, pageVars, store, checkoutLog, portal, an, clientVars>>

\* The merge-write commits, the await resumes and line 97 answers.
WebhookSetOk(w) ==
    /\ wh[w].pc = "writing"
    /\ LET ref == ServerUsageDoc(wh[w].userId)
       IN  store' = [store EXCEPT ![ref] = CheckoutWrite(store[ref], wh[w].customer)]
    /\ checkoutLog' = [checkoutLog EXCEPT ![wh[w].userId] =
         IF @.deliveries > 0 /\ @.customer = wh[w].customer
         THEN [@ EXCEPT !.deliveries = @ + 1]
         ELSE [customer |-> wh[w].customer, deliveries |-> 1]]
    /\ wh' = [wh EXCEPT ![w] = SendAck(wh[w])]
    /\ UNCHANGED <<config, pageVars, portal, an, clientVars>>

\* The write is rejected by the store: the await throws, nothing catches it,
\* line 97 is never reached and the request is never answered.
WebhookSetFail(w) ==
    /\ wh[w].pc = "writing"
    /\ wh' = [wh EXCEPT ![w].pc = "rejected", ![w].userId = NoUser,
                          ![w].customer = NoCustomer]
    /\ UNCHANGED <<config, pageVars, store, checkoutLog, portal, an, clientVars>>

---------------------------------------------------------------------------
\* Server: /api/create-portal-session  (server.cjs 42-65)
\*
\* error: which JSON error body was sent ("none" with a 200).

IdlePortal ==
    [pc |-> "idle", userId |-> NoUser, customer |-> NoCustomer, calls |-> 0,
     sessionUrl |-> NoUrl, status |-> 0, error |-> "none", url |-> NoUrl]

\* Mutant of stripeCustomerIdOf: the lookup reads another field name than the
\* webhook writes.
stripeCustomerIdOf_WrongField(userDoc) ==
    IF userDoc.exists /\ Has(userDoc.data, "customerId")
    THEN userDoc.data.customerId
    ELSE NoCustomer

\* userDoc.data()?.stripeCustomerId, with undefined and null both NoCustomer
stripeCustomerIdOf(userDoc) ==
    IF userDoc.exists /\ Has(userDoc.data, "stripeCustomerId")
    THEN userDoc.data.stripeCustomerId
    ELSE NoCustomer

\* Mutant of PortalReceive: the key check of line 44 is missing, the lookup
\* is issued first.
PortalReceive_LookupFirst(p, userId) ==
    /\ portal[p].pc = "idle"
    /\ \A earlier \in 1 .. p - 1 : portal[earlier].pc # "idle"
    /\ portal' = [portal EXCEPT ![p] =
                     [IdlePortal EXCEPT !.userId = userId, !.pc = "reading"]]
    /\ UNCHANGED <<config, pageVars, store, checkoutLog, wh, an, clientVars>>

\* line 43-44, then the store read of line 48 is issued
PortalReceive(p, userId) ==
    /\ portal[p].pc = "idle"
    /\ \A earlier \in 1 .. p - 1 : portal[earlier].pc # "idle"    \* requests are numbered in order
    /\ portal' = [portal EXCEPT ![p] =
         IF ~config.STRIPE_SECRET_KEY
         THEN [IdlePortal EXCEPT !.userId = userId, !.pc = "done", !.status = 500,
                                 !.error = "Server missing Stripe Key"]
         ELSE [IdlePortal EXCEPT !.userId = userId, !.pc = "reading"]]
    /\ UNCHANGED <<config, pageVars, store, checkoutLog, wh, an, clientVars>>

\* Mutant of PortalGetOk: the check of line 51 is missing, the provider is
\* called with whatever the lookup gave.
PortalGetOk_NoNotFound(p) ==
    /\ portal[p].pc = "reading"
    /\ config.adminApps
    /\ portal[p].userId # NoUser
    /\ portal' = [portal EXCEPT ![p].pc = "creating",
                                ![p].customer = stripeCustomerIdOf(
                                    store[ServerUsageDoc(portal[p].userId)]),
                                ![p].calls = @ + 1]
    /\ UNCHANGED <<config, pageVars, store, checkoutLog, wh, an, clientVars>>

\* line 48 resolves; line 49-51; then line 54-55 issues the provider call
PortalGetOk(p) ==
    /\ portal[p].pc = "reading"
    /\ config.adminApps
    /\ portal[p].userId # NoUser
    /\ LET stripeCustomerId == stripeCustomerIdOf(store[ServerUsageDoc(portal[p].userId)])
       IN  portal' = [portal EXCEPT ![p] =
             IF stripeCustomerId = NoCustomer
             THEN [@ EXCEPT !.pc = "done", !.status = 404,
                            !.error = "No subscription found for this user."]
             ELSE [@ EXCEPT !.pc = "creating", !.customer = stripeCustomerId,
                            !.calls = @ + 1]]
    /\ UNCHANGED <<config, pageVars, store, checkoutLog, wh, an, clientVars>>

\* line 48 throws (no initialised app, no userId, store unreachable): line 61-63
PortalGetFail(p) ==
    /\ portal[p].pc = "reading"
    /\ portal' = [portal EXCEPT ![p].pc = "done", ![p].status = 500,
                                ![p].error = "error.message"]
    /\ UNCHANGED <<config, pageVars, store, checkoutLog, wh, an, clientVars>>

\* Mutant of PortalSessionOk: the session URL is also saved in the user's
\* record.
PortalSessionOk_SavesUrl(p, sessionUrl) ==
    /\ portal[p].pc = "creating"
    /\ portal' = [portal EXCEPT ![p].pc = "done", ![p].sessionUrl = sessionUrl,
                                ![p].status = 200, ![p].url = sessionUrl]
    /\ LET ref == ServerUsageDoc(portal[p].userId)
       IN  store' = [store EXCEPT ![ref] = MergeSet(@, [portalUrl |-> sessionUrl])]
    /\ UNCHANGED <<config, pageVars, checkoutLog, wh, an, clientVars>>

\* line 55 resolves with the provider's session; line 60
PortalSessionOk(p, sessionUrl) ==
    /\ portal[p].pc = "creating"
    /\ portal' = [portal EXCEPT ![p].pc = "done", ![p].sessionUrl = sessionUrl,
                                ![p].status = 200, ![p].url = sessionUrl]
    /\ UNCHANGED <<config, pageVars, store, checkoutLog, wh, an, clientVars>>

\* line 55 rejects; line 61-63
PortalSessionFail(p) ==
    /\ portal[p].pc = "creating"
    /\ portal' = [portal EXCEPT ![p].pc = "done", ![p].status = 500,
                                ![p].error = "error.message"]
    /\ UNCHANGED <<config, pageVars, store, checkoutLog, wh, an, clientVars>>

---------------------------------------------------------------------------
\* Server: /api/analyze  (server.cjs 28-39)
\*
\* calls: fetches issued to the generative-AI endpoint.  upstream: how the
\* fetch ended ("ok": 2xx with a JSON body, "notok": a JSON body with another
\* status, "failed": the fetch rejected or the body was not JSON) and data: the
\* 2xx body.  status, body, error, sent: the response to the caller.

Replies == {"json-A", "json-B", "json-C"}
NoReply == "no-reply"
ErrorMessages == {"API key not valid", "quota exceeded"}
NoMessage == "no-message"

IdleAnalyze ==
    [pc |-> "idle", calls |-> 0, upstream |-> "none", data |-> NoReply,
     status |-> 0, body |-> NoReply, error |-> "none", sent |-> 0]

\* line 36: data.error?.message || 'Google API Error'
upstreamError(message) == IF message = NoMessage THEN "Google API Error" ELSE message

\* line 30-34: the fetch is issued, with whatever GOOGLE_API_KEY holds
AnalyzeReceive(a) ==
    /\ an[a].pc = "idle"
    /\ an' = [an EXCEPT ![a].pc = "fetching", ![a].calls = @ + 1]
    /\ UNCHANGED <<config, pageVars, store, checkoutLog, wh, portal, clientVars>>

\* Mutant of AnalyzeReplyNotOk: the check of response.ok (line 36) is missing,
\* the provider's error body is relayed with res.json.
AnalyzeReplyNotOk_Relayed(a, message) ==
    /\ an[a].pc = "fetching"
    /\ an' = [an EXCEPT ![a].pc = "done", ![a].upstream = "notok",
                        ![a].status = 200, ![a].error = upstreamError(message),
                        ![a].sent = @ + 1]
    /\ UNCHANGED <<config, pageVars, store, checkoutLog, wh, portal, clientVars>>

\* line 35-37: a 2xx answer with a JSON body is relayed by res.json(data).  The
\* provider answers 2xx only to a request that carries a key.
AnalyzeReplyOk(a, data) ==
    /\ an[a].pc = "fetching"
    /\ config.GOOGLE_API_KEY
    /\ an' = [an EXCEPT ![a].pc = "done", ![a].upstream = "ok", ![a].data = data,
                        ![a].status = 200, ![a].body = data, ![a].sent = @ + 1]
    /\ UNCHANGED <<config, pageVars, store, checkoutLog, wh, portal, clientVars>>

\* line 35-36, 38: another status throws the provider's message into the catch
AnalyzeReplyNotOk(a, message) ==
    /\ an[a].pc = "fetching"
    /\ an' = [an EXCEPT ![a].pc = "done", ![a].upstream = "notok",
                        ![a].status = 500, ![a].error = upstreamError(message),
                        ![a].sent = @ + 1]
    /\ UNCHANGED <<config, pageVars, store, checkoutLog, wh, portal, clientVars>>

\* line 31 or 35 rejects (network failure, body not JSON): line 38
AnalyzeFetchFail(a) ==
    /\ an[a].pc = "fetching"
    /\ an' = [an EXCEPT ![a].pc = "done", ![a].upstream = "failed",
                        ![a].status = 500, ![a].error = "error.message",
                        ![a].sent = @ + 1]
    /\ UNCHANGED <<config, pageVars, store, checkoutLog, wh, portal, clientVars>>

---------------------------------------------------------------------------
\* Client: the App component (one instance per browser tab).

FREE_TRIAL_LIMIT == 3

\* The record both the listener and the transaction start an absent document
\* from (lines 583-587 and 690-694), and the first value of usageLimits (514-518).
initialData == [initiatorChecks |-> 0, bidderChecks |-> 0, isSubscribed |-> FALSE]

RoleKeys == {"initiatorChecks", "bidderChecks"}

\* data[key] || 0
CountOf(data, key) == IF Has(data, key) THEN data[key] ELSE 0

\* docSnap.data().isSubscribed || false
SubscribedOf(data) == IF Has(data, "isSubscribed") THEN data.isSubscribed ELSE FALSE

\* Mutant of UsageFromSnapshot: a missing isSubscribed is read as true.
UsageFromSnapshot_DefaultsSubscribed(data) ==
    [f \in DOMAIN data \cup {"isSubscribed"} |->
        IF f = "isSubscribed" THEN (IF Has(data, f) THEN data[f] ELSE TRUE)
        ELSE data[f]]

\* line 576-580: { ...docSnap.data(), isSubscribed: docSnap.data().isSubscribed || false }
UsageFromSnapshot(data) ==
    [f \in (DOMAIN data) \cup {"isSubscribed"} |->
        IF f = "isSubscribed" THEN SubscribedOf(data) ELSE data[f]]

\* Mutant of isTrialOver: > where the code has >=.
isTrialOver_Strict(usage) ==
    /\ Has(usage, "bidderChecks") /\ usage.bidderChecks > FREE_TRIAL_LIMIT
    /\ ~usage.isSubscribed

\* Mutant of isTrialOver: the other counter is compared.
isTrialOver_Initiator(usage) ==
    /\ Has(usage, "initiatorChecks") /\ usage.initiatorChecks >= FREE_TRIAL_LIMIT
    /\ ~usage.isSubscribed

\* line 521.  A comparison with a missing (undefined) bidderChecks is false.
isTrialOver(usage) ==
    /\ Has(usage, "bidderChecks") /\ usage.bidderChecks >= FREE_TRIAL_LIMIT
    /\ ~usage.isSubscribed

\* The document every tab of the signed-in user listens to and increments.
docRef == getUsageDocRef(ClientUser)

IdleListener == [ready |-> FALSE, pending |-> FALSE, initWrite |-> FALSE]
\* absentAtCall records whether the usage document was absent when the call
\* was made (read by the properties only).  promise: how the promise returned
\* by incrementUsage settled for its caller ("none" while it has not).
IdleInc == [pc |-> "idle", client |-> 0, roleKey |-> "bidderChecks",
            absentAtCall |-> FALSE, currentData |-> NoData, stale |-> FALSE,
            promise |-> "none"]

\* A committed change of the usage document: every other tab's listener has a
\* snapshot to receive, and every transaction that has read it is out of date.
NotifyListeners(writer) ==
    [c \in Clients |->
        IF listener[c].ready /\ c # writer
        THEN [listener[c] EXCEPT !.pending = TRUE] ELSE listener[c]]

InvalidateReads(committer) ==
    [t \in Incs |->
        IF inc[t].pc = "commit" /\ t # committer
        THEN [inc[t] EXCEPT !.stale = TRUE] ELSE inc[t]]

\* fetchWithRetry (lines 85-101).
\*
\* pc: "idle" (not called), "fetching" (await fetch of line 88), "waiting"
\* (await of the timer of line 98), "returned", "thrown".  i is the loop
\* variable.  log holds the outcome of every attempt made, waits the delay of
\* every timer set, in milliseconds.  result is what the caller receives: the
\* response of an attempt, the error of an attempt, or nothing.
DEFAULT_MAX_RETRIES == 3
Failures == {"http-500", "http-429", "network"}
Outcomes == {"ok"} \cup Failures
NoResult == [kind |-> "undefined", attempt |-> 0, cause |-> "none"]
IdleFetch ==
    [pc |-> "idle", maxRetries |-> 0, i |-> 0, log |-> <<>>, waits |-> <<>>,
     result |-> NoResult]

\* Math.pow(2, i) * 1000 of line 97, with a delay that grows by a second.
backoffDelay_Linear(i) == (i + 1) * 1000

backoffDelay(i) == (2 ^ i) * 1000

\* i === maxRetries - 1 of line 96, with the test one attempt late.
isLastAttempt_OneLate(i, maxRetries) == i = maxRetries

isLastAttempt(i, maxRetries) == i = maxRetries - 1

\* The loop test of line 86 for the value i takes next: another attempt, or
\* the function ends without a return value.
LoopTest(call, i) ==
    IF i < call.maxRetries
    THEN [call EXCEPT !.pc = "fetching", !.i = i]
    ELSE [call EXCEPT !.pc = "returned", !.i = i, !.result = NoResult]

FetchWithRetryCall(maxRetries) ==
    /\ fetchCall.pc = "idle"
    /\ fetchCall' = LoopTest([fetchCall EXCEPT !.maxRetries = maxRetries], 0)
    /\ UNCHANGED <<config, app_id, historyVars, store, checkoutLog, serverVars, clientVars>>

\* The fetch of line 88 settles: a response that is ok is returned (line 94);
\* a response that is not ok throws (line 92) and a failed fetch throws, into
\* the catch of lines 95-99, which rethrows on the last attempt and sets the
\* timer otherwise.
FetchSettles(outcome) ==
    /\ fetchCall.pc = "fetching"
    /\ LET attempt == Len(fetchCall.log) + 1
           logged == [fetchCall EXCEPT !.log = Append(@, outcome)]
       IN  fetchCall' =
             IF outcome = "ok"
             THEN [logged EXCEPT !.pc = "returned",
                       !.result = [kind |-> "response", attempt |-> attempt, cause |-> outcome]]
             ELSE IF isLastAttempt(fetchCall.i, fetchCall.maxRetries)
             THEN [logged EXCEPT !.pc = "thrown",
                       !.result = [kind |-> "error", attempt |-> attempt, cause |-> outcome]]
             ELSE [logged EXCEPT !.pc = "waiting",
                       !.waits = Append(@, backoffDelay(fetchCall.i))]
    /\ UNCHANGED <<config, app_id, historyVars, store, checkoutLog, serverVars, clientVars>>

\* The timer of line 98 fires: the loop goes on with i + 1.
BackoffElapsed ==
    /\ fetchCall.pc = "waiting"
    /\ fetchCall' = LoopTest(fetchCall, fetchCall.i + 1)
    /\ UNCHANGED <<config, app_id, historyVars, store, checkoutLog, serverVars, clientVars>>

\* Report history of a tab (lines 311-338, 504, 511, 602-631).
\*
\* Logins of the mock user table (lines 497-503) and their roles.
Logins == {"myuser", "auditor", "admin"}
NoLogin == "no-login"            \* currentUser null
roleOf(login) == IF login = "admin" THEN "ADMIN" ELSE "USER"

\* A report document: its id, the login of its owner and its timestamp, which
\* a document may lack.
Timestamps == {1, 2}
NoTimestamp == -1
ReportData == [userLogin : Logins, timestamp : Timestamps \cup {NoTimestamp}]

\* The collections of reports with the given ids at most, one document per id.
Collections(ids) ==
    UNION {{{[id |-> i, userLogin |-> data[i].userLogin, timestamp |-> data[i].timestamp] :
                i \in stored} : data \in [stored -> ReportData]} : stored \in SUBSET ids}

\* The query of lines 605-611: every report for an administrator, the reports
\* where userLogin == currentUser.login for anyone else.
AnyLogin == "any-login"
reportsQuery(login) == IF roleOf(login) # "ADMIN" THEN login ELSE AnyLogin
QueryResult(userLogin) ==
    {r \in reports : userLogin = AnyLogin \/ r.userLogin = userLogin}

\* snapshot.forEach (lines 615-617): the documents in the order of their ids.
RECURSIVE snapshotForEach(_)
snapshotForEach(S) ==
    IF S = {} THEN <<>>
    ELSE LET first == CHOOSE r \in S : \A other \in S : r.id <= other.id
         IN  <<first>> \o snapshotForEach(S \ {first})

\* (r.timestamp || 0) of line 619.
timestampOrZero(r) == IF r.timestamp = NoTimestamp THEN 0 ELSE r.timestamp

\* Array.prototype.sort with the comparator of line 619: a stable sort, the
\* larger timestamp first.
RECURSIVE insertSorted(_, _)
insertSorted(sorted, r) ==
    IF sorted = <<>> THEN <<r>>
    ELSE IF timestampOrZero(Head(sorted)) >= timestampOrZero(r)
    THEN <<Head(sorted)>> \o insertSorted(Tail(sorted), r)
    ELSE <<r>> \o sorted

RECURSIVE historySort(_)
historySort(history) ==
    IF history = <<>> THEN <<>>
    ELSE insertSorted(historySort(SubSeq(history, 1, Len(history) - 1)),
                      history[Len(history)])

IdleReportsListener ==
    [active |-> FALSE, pending |-> FALSE, ref |-> <<>>, userLogin |-> NoLogin]

\* EFFECT 3 (lines 602-631) run for the values of its dependencies: the
\* listener of the run before is unsubscribed (line 626); then either a
\* listener on the query subscribes, its first snapshot on its way, or the
\* history is cleared (line 629).
ReportsEffect(c, ready, user) ==
    IF ready /\ user # NoLogin
    THEN /\ reportsListener' = [reportsListener EXCEPT ![c] =
                [active |-> TRUE, pending |-> TRUE, ref |-> getReportsCollectionRef,
                 userLogin |-> reportsQuery(user)]]
         /\ UNCHANGED reportsHistory
    ELSE /\ reportsListener' = [reportsListener EXCEPT ![c] = IdleReportsListener]
         /\ reportsHistory' = [reportsHistory EXCEPT ![c] = <<>>]

\* handleLogin's timer callback (lines 326-338) for a login whose password
\* matched: setCurrentUser(userData), a new object, so EFFECT 3 runs again.
Login(c, login) ==
    /\ currentUser' = [currentUser EXCEPT ![c] = login]
    /\ ReportsEffect(c, listener[c].ready, login)
    /\ UNCHANGED <<config, app_id, reports, fetchCall, store, checkoutLog, serverVars,
                   clientVars>>

\* The onSnapshot callback of lines 613-621 with the listener's query result.
ReportsSnapshot(c) ==
    /\ reportsListener[c].active /\ reportsListener[c].pending
    /\ reportsHistory' = [reportsHistory EXCEPT ![c] =
            historySort(snapshotForEach(QueryResult(reportsListener[c].userLogin)))]
    /\ reportsListener' = [reportsListener EXCEPT ![c].pending = FALSE]
    /\ UNCHANGED <<config, app_id, currentUser, reports, fetchCall, store, checkoutLog,
                   serverVars, clientVars>>

\* The listener's error callback (lines 621-623): the error is logged and the
\* listener receives nothing more.
ReportsListenError(c) ==
    /\ reportsListener[c].active /\ reportsListener[c].pending
    /\ reportsListener' = [reportsListener EXCEPT ![c].active = FALSE, ![c].pending = FALSE]
    /\ UNCHANGED <<config, app_id, currentUser, reportsHistory, reports, fetchCall, store,
                   checkoutLog, serverVars, clientVars>>

\* EFFECT 1 then EFFECT 2 and EFFECT 3 (lines 524-631): db and userId are set
\* and the usage listener subscribes, its first snapshot on its way; the
\* report history effect runs for the user logged in.
ClientReady(c) ==
    /\ ~listener[c].ready
    /\ listener' = [listener EXCEPT ![c].ready = TRUE, ![c].pending = TRUE]
    /\ ReportsEffect(c, TRUE, currentUser[c])
    /\ UNCHANGED <<config, app_id, currentUser, reports, fetchCall, store, checkoutLog,
                   serverVars, usageLimits, isPaywallOpen, errorMessage, inc>>

\* The onSnapshot callback (lines 574-592) on the document as the tab sees it
\* now: the stored document, under the tab's own write of line 590 while that
\* write is unresolved (the SDK shows a tab its pending writes).
SnapshotDeliver(c) ==
    /\ listener[c].ready /\ listener[c].pending
    /\ IF listener[c].initWrite
       THEN /\ usageLimits' = [usageLimits EXCEPT ![c] = UsageFromSnapshot(initialData)]
            /\ listener' = [listener EXCEPT ![c].pending = FALSE]
       ELSE IF store[docRef].exists
       THEN /\ usageLimits' = [usageLimits EXCEPT ![c] =
                                  UsageFromSnapshot(store[docRef].data)]
            /\ listener' = [listener EXCEPT ![c].pending = FALSE]
       ELSE \* line 590: setDoc(docRef, initialData) is issued, not awaited
            /\ usageLimits' = [usageLimits EXCEPT ![c] = initialData]
            /\ listener' = [listener EXCEPT ![c].pending = FALSE,
                                            ![c].initWrite = TRUE]
    /\ UNCHANGED <<config, pageVars, store, checkoutLog, serverVars, isPaywallOpen,
                   errorMessage, inc>>

\* The write issued by line 590 reaches the store: a plain set, which replaces
\* whatever the document holds by then.
InitWriteApply(c) ==
    /\ listener[c].initWrite
    /\ store' = [store EXCEPT ![docRef] = Doc(initialData)]
    /\ listener' = [NotifyListeners(c) EXCEPT ![c].initWrite = FALSE]
    /\ inc' = InvalidateReads(0)
    /\ UNCHANGED <<config, pageVars, checkoutLog, serverVars, usageLimits, isPaywallOpen,
                   errorMessage>>

\* The write issued by line 590 is rejected: logged by the catch of line 590;
\* the local view falls back to the stored document.
InitWriteFail(c) ==
    /\ listener[c].initWrite
    /\ listener' = [listener EXCEPT ![c].initWrite = FALSE, ![c].pending = TRUE]
    /\ UNCHANGED <<config, pageVars, store, checkoutLog, serverVars, usageLimits,
                   isPaywallOpen, errorMessage, inc>>

\* incrementUsage(roleKey) is called in tab c (lines 675-681): it returns at
\* once without db and userId, and starts the transaction otherwise.
incrementUsage(t, c, roleKey) ==
    /\ inc[t].pc = "idle"
    /\ \A earlier \in 1 .. t - 1 : inc[earlier].pc # "idle"    \* calls are numbered in order
    /\ inc' = [inc EXCEPT ![t] =
         IF listener[c].ready
         THEN [IdleInc EXCEPT !.client = c, !.roleKey = roleKey, !.pc = "get",
                              !.absentAtCall = ~store[docRef].exists]
         ELSE [IdleInc EXCEPT !.client = c, !.pc = "returned",     \* line 676
                              !.promise = "fulfilled"]]

\* A direct call of incrementUsage.
IncrementUsageCall(t, c, roleKey) ==
    /\ incrementUsage(t, c, roleKey)
    /\ UNCHANGED <<config, pageVars, store, checkoutLog, serverVars, usageLimits,
                   isPaywallOpen, errorMessage, listener>>

\* line 682-695: transaction.get(docRef), then currentData
TxnGet(t) ==
    /\ inc[t].pc = "get"
    /\ inc' = [inc EXCEPT ![t].pc = "commit", ![t].stale = FALSE,
                          ![t].currentData =
                              IF store[docRef].exists THEN store[docRef].data
                              ELSE initialData]
    /\ UNCHANGED <<config, pageVars, store, checkoutLog, serverVars, usageLimits,
                   isPaywallOpen, errorMessage, listener>>

\* Mutant of Incremented: only the counter is written, not the full record.
Incremented_CounterOnly(currentData, roleKey) ==
    [f \in {roleKey} |-> CountOf(currentData, roleKey) + 1]

\* Mutant of Incremented: the counter is written into the default record.
Incremented_IntoDefaults(currentData, roleKey) ==
    [initialData EXCEPT ![roleKey] = CountOf(currentData, roleKey) + 1]

\* line 698-701: the record the transaction writes
Incremented(currentData, roleKey) ==
    [f \in (DOMAIN currentData) \cup {roleKey} |->
        IF f = roleKey THEN CountOf(currentData, roleKey) + 1 ELSE currentData[f]]

\* line 704 and the commit: it succeeds only if the document read has not been
\* written since (optimistic concurrency of runTransaction).
TxnCommit(t) ==
    /\ inc[t].pc = "commit" /\ ~inc[t].stale
    /\ store' = [store EXCEPT ![docRef] =
                    Doc(Incremented(inc[t].currentData, inc[t].roleKey))]
    /\ inc' = [InvalidateReads(t) EXCEPT ![t].pc = "done", ![t].currentData = NoData,
                                         ![t].client = IdleInc.client,
                                         ![t].promise = "fulfilled"]
    /\ listener' = NotifyListeners(0)
    /\ UNCHANGED <<config, pageVars, checkoutLog, serverVars, usageLimits, isPaywallOpen,
                   errorMessage>>

\* The commit is refused because the document changed: runTransaction runs
\* the update function again.
TxnRetry(t) ==
    /\ inc[t].pc = "commit" /\ inc[t].stale
    /\ inc' = [inc EXCEPT ![t].pc = "get", ![t].currentData = NoData,
                          ![t].stale = FALSE]
    /\ UNCHANGED <<config, pageVars, store, checkoutLog, serverVars, usageLimits,
                   isPaywallOpen, errorMessage, listener>>

\* runTransaction rejects (attempts exhausted, store unreachable): line 707-709
TxnAbort(t) ==
    /\ inc[t].pc \in {"get", "commit"}
    \* the catch handles the rejection: incrementUsage itself returns normally
    /\ inc' = [inc EXCEPT ![t] = [IdleInc EXCEPT !.pc = "failed",
                                                 !.promise = "fulfilled"]]
    /\ errorMessage' = [errorMessage EXCEPT ![inc[t].client] =
                           "Failed to update usage count."]
    /\ UNCHANGED <<config, pageVars, store, checkoutLog, serverVars, usageLimits,
                   isPaywallOpen, listener>>

\* handleAnalyze (line 715-721): the paywall check against the tab's snapshot.
\* Blocked: the paywall opens, the message is set and the handler returns.
\* Allowed: the audit runs and ends by counting itself with incrementUsage.
handleAnalyze(c, t) ==
    IF isTrialOver(usageLimits[c])
    THEN /\ isPaywallOpen' = [isPaywallOpen EXCEPT ![c] = TRUE]
         /\ errorMessage' = [errorMessage EXCEPT ![c] = "Trial limit reached."]
         /\ UNCHANGED <<config, pageVars, store, checkoutLog, serverVars, usageLimits,
                        listener, inc>>
    ELSE /\ incrementUsage(t, c, "bidderChecks")
         /\ UNCHANGED <<config, pageVars, store, checkoutLog, serverVars, usageLimits,
                        isPaywallOpen, errorMessage, listener>>

---------------------------------------------------------------------------
\* Initial states.

\* Environments of the billing routes (they do not read GOOGLE_API_KEY).
Configs == [STRIPE_SECRET_KEY : BOOLEAN, STRIPE_WEBHOOK_SECRET : BOOLEAN,
            adminApps : BOOLEAN, GOOGLE_API_KEY : {TRUE}]

\* Every environment: each secret and the store credential set or not.
AllConfigs == [STRIPE_SECRET_KEY : BOOLEAN, STRIPE_WEBHOOK_SECRET : BOOLEAN,
               adminApps : BOOLEAN, GOOGLE_API_KEY : BOOLEAN]

\* Records persisted before the processes start.
InitialRecords ==
    {[initiatorChecks |-> 0, bidderChecks |-> b, isSubscribed |-> s] :
        b \in 0 .. MaxInitChecks, s \in BOOLEAN}

\* The application's own build and an empty report collection.
InitPage ==
    /\ app_id = Undefined
    /\ reports = {}

InitClient ==
    /\ usageLimits = [c \in Clients |-> initialData]
    /\ isPaywallOpen = [c \in Clients |-> FALSE]
    /\ errorMessage = [c \in Clients |-> "none"]
    /\ listener = [c \in Clients |-> IdleListener]
    /\ inc = [t \in Incs |-> IdleInc]
    /\ currentUser = [c \in Clients |-> NoLogin]
    /\ reportsHistory = [c \in Clients |-> <<>>]
    /\ reportsListener = [c \in Clients |-> IdleReportsListener]
    /\ fetchCall = IdleFetch

InitServerProcs ==
    /\ wh = [w \in Webhooks |-> IdleWebhook]
    /\ portal = [p \in Portals |-> IdlePortal]
    /\ an = [a \in Analyzes |-> IdleAnalyze]

LegacyRecord == [initiatorChecks |-> 1, bidderChecks |-> 2, isSubscribed |-> FALSE]

InitServer ==
    /\ InitPage
    /\ config \in Configs
    /\ \E d1 \in {Absent, Doc(LegacyRecord)} :
         store = [ref \in DocPaths |->
                    IF ref = ServerUsageDoc("u1") THEN d1 ELSE Absent]
    /\ checkoutLog = [u \in Users |-> NoCheckout]
    /\ InitServerProcs
    /\ InitClient

WebhookStep(W) ==
    \/ \E w \in W, sigValid \in BOOLEAN, type \in EventTypes,
          ctorThrows \in (IF config.STRIPE_SECRET_KEY THEN {FALSE} ELSE BOOLEAN) :
         \* client_reference_id and customer are read from a checkout session only
         \E userId \in (IF type = CHECKOUT_COMPLETED THEN Users \cup {NoUser} ELSE {NoUser}),
            customer \in (IF type = CHECKOUT_COMPLETED THEN Customers \cup {NoCustomer}
                          ELSE {NoCustomer}) :
            WebhookReceive(w, sigValid, type, userId, customer, ctorThrows)
    \/ \E w \in W : WebhookSetOk(w)
    \/ \E w \in W : WebhookSetFail(w)

\* customer.subscription.deleted events for the subscription of a customer.
CancellationStep(W) ==
    \E w \in W, sigValid \in BOOLEAN, customer \in Customers,
       ctorThrows \in (IF config.STRIPE_SECRET_KEY THEN {FALSE} ELSE BOOLEAN) :
        WebhookReceive(w, sigValid, SUBSCRIPTION_DELETED, NoUser, customer, ctorThrows)

AnalyzeRouteStep(A) ==
    \/ \E a \in A : AnalyzeReceive(a)
    \/ \E a \in A, data \in Replies : AnalyzeReplyOk(a, data)
    \/ \E a \in A, message \in ErrorMessages \cup {NoMessage} : AnalyzeReplyNotOk(a, message)
    \/ \E a \in A : AnalyzeFetchFail(a)

PortalStep(P) ==
    \/ \E p \in P, userId \in Users \cup {NoUser} : PortalReceive(p, userId)
    \/ \E p \in P : PortalGetOk(p)
    \/ \E p \in P : PortalGetFail(p)
    \/ \E p \in P, sessionUrl \in Urls : PortalSessionOk(p, sessionUrl)
    \/ \E p \in P : PortalSessionFail(p)

ListenerStep ==
    \/ \E c \in Clients : ClientReady(c)
    \/ \E c \in Clients : SnapshotDeliver(c)
    \/ \E c \in Clients : InitWriteApply(c)
    \/ \E c \in Clients : InitWriteFail(c)

TransactionStep ==
    \/ \E t \in Incs : TxnGet(t)
    \/ \E t \in Incs : TxnCommit(t)
    \/ \E t \in Incs : TxnRetry(t)
    \/ \E t \in Incs : TxnAbort(t)

AnalyzeStep == \E t \in Incs, c \in Clients : handleAnalyze(c, t)

CallStep ==
    \E t \in Incs, c \in Clients, roleKey \in RoleKeys : IncrementUsageCall(t, c, roleKey)

\* The server routes, under every configuration of the environment.
NextServer == WebhookStep(Webhooks) \/ PortalStep(Portals)
SpecServer == InitServer /\ [][NextServer]_vars

\* The relay route alone, with and without its key.
InitAnalyze ==
    /\ InitPage
    /\ config \in {c \in AllConfigs :
                     c.STRIPE_SECRET_KEY /\ c.STRIPE_WEBHOOK_SECRET /\ c.adminApps}
    /\ store = [ref \in DocPaths |-> Absent]
    /\ checkoutLog = [u \in Users |-> NoCheckout]
    /\ InitServerProcs
    /\ InitClient

NextAnalyze == AnalyzeRouteStep(Analyzes)
SpecAnalyze == InitAnalyze /\ [][NextAnalyze]_vars

\* The routes that act on events and prompts from outside, under every
\* environment, cancellations included.
InitApi ==
    /\ InitPage
    /\ config \in AllConfigs
    /\ store = [ref \in DocPaths |->
                  IF ref = ServerUsageDoc("u1") THEN Doc(LegacyRecord) ELSE Absent]
    /\ checkoutLog = [u \in Users |-> NoCheckout]
    /\ InitServerProcs
    /\ InitClient

NextApi == AnalyzeRouteStep({1}) \/ WebhookStep(Webhooks) \/ CancellationStep(Webhooks)
SpecApi == InitApi /\ [][NextApi]_vars

\* The client alone: the usage document is absent or holds a record persisted
\* by an earlier session.
InitUsage ==
    /\ InitPage
    /\ config = [STRIPE_SECRET_KEY |-> TRUE, STRIPE_WEBHOOK_SECRET |-> TRUE,
                 adminApps |-> TRUE, GOOGLE_API_KEY |-> TRUE]
    /\ \E d \in {Absent} \cup {Doc(r) : r \in InitialRecords} :
         store = [ref \in DocPaths |-> IF ref = docRef THEN d ELSE Absent]
    /\ checkoutLog = [u \in Users |-> NoCheckout]
    /\ InitServerProcs
    /\ InitClient

NextClient == ListenerStep \/ CallStep \/ AnalyzeStep \/ TransactionStep
SpecClient == InitUsage /\ [][NextClient]_vars

\* The client with its listener scheduled: a snapshot that is due is delivered
\* and a write that was issued is resolved (applied or rejected) by the SDK.
\* The stored record may also be one written without the subscription flag.
PartialRecord == [initiatorChecks |-> 0, bidderChecks |-> 1]

InitListen ==
    /\ InitPage
    /\ config = [STRIPE_SECRET_KEY |-> TRUE, STRIPE_WEBHOOK_SECRET |-> TRUE,
                 adminApps |-> TRUE, GOOGLE_API_KEY |-> TRUE]
    /\ \E d \in {Absent, Doc(PartialRecord), Doc(LegacyRecord)} :
         store = [ref \in DocPaths |-> IF ref = docRef THEN d ELSE Absent]
    /\ checkoutLog = [u \in Users |-> NoCheckout]
    /\ InitServerProcs
    /\ InitClient

ListenerFairness ==
    \A c \in Clients :
        /\ WF_vars(SnapshotDeliver(c))
        /\ WF_vars(InitWriteApply(c) \/ InitWriteFail(c))

SpecListen == InitListen /\ [][NextClient]_vars /\ ListenerFairness

\* fetchWithRetry alone, for every maxRetries and every outcome of its fetches;
\* a fetch in flight settles and a timer set fires.
FetchStep ==
    \/ \E maxRetries \in 0 .. MaxRetries : FetchWithRetryCall(maxRetries)
    \/ \E outcome \in Outcomes : FetchSettles(outcome)
    \/ BackoffElapsed

InitFetch ==
    /\ InitPage
    /\ config = [STRIPE_SECRET_KEY |-> TRUE, STRIPE_WEBHOOK_SECRET |-> TRUE,
                 adminApps |-> TRUE, GOOGLE_API_KEY |-> TRUE]
    /\ store = [ref \in DocPaths |-> Absent]
    /\ checkoutLog = [u \in Users |-> NoCheckout]
    /\ InitServerProcs
    /\ InitClient

FetchFairness ==
    /\ WF_vars(\E outcome \in Outcomes : FetchSettles(outcome))
    /\ WF_vars(BackoffElapsed)

NextFetch == FetchStep
SpecFetch == InitFetch /\ [][NextFetch]_vars /\ FetchFairness

\* The report history of a tab, for every __app_id of the page and every
\* collection of reports stored before the tab starts.
HistoryStep(C) ==
    \/ \E c \in C : ClientReady(c)
    \/ \E c \in C, login \in Logins : Login(c, login)
    \/ \E c \in C : ReportsSnapshot(c)
    \/ \E c \in C : ReportsListenError(c)

InitHistory ==
    /\ app_id \in AppIds \cup {Undefined}
    /\ reports \in Collections(1 .. NumReports)
    /\ config = [STRIPE_SECRET_KEY |-> TRUE, STRIPE_WEBHOOK_SECRET |-> TRUE,
                 adminApps |-> TRUE, GOOGLE_API_KEY |-> TRUE]
    /\ store = [ref \in DocPaths |-> Absent]
    /\ checkoutLog = [u \in Users |-> NoCheckout]
    /\ InitServerProcs
    /\ InitClient

NextHistory == HistoryStep({1})
SpecHistory == InitHistory /\ [][NextHistory]_vars

\* The client on a record the billing flow has linked to a customer, on a
\* record without the subscription flag, and without a record.
LinkedRecord ==
    [initiatorChecks |-> 1, bidderChecks |-> 3, isSubscribed |-> TRUE,
     stripeCustomerId |-> "cus_1"]

InitCounter ==
    /\ InitPage
    /\ config = [STRIPE_SECRET_KEY |-> TRUE, STRIPE_WEBHOOK_SECRET |-> TRUE,
                 adminApps |-> TRUE, GOOGLE_API_KEY |-> TRUE]
    /\ \E d \in {Absent, Doc(PartialRecord), Doc(LinkedRecord)} :
         store = [ref \in DocPaths |-> IF ref = docRef THEN d ELSE Absent]
    /\ checkoutLog = [u \in Users |-> NoCheckout]
    /\ InitServerProcs
    /\ InitClient

SpecCounter == InitCounter /\ [][NextClient]_vars

\* The client when every increment comes from an audit (handleAnalyze).
NextAudit == ListenerStep \/ AnalyzeStep \/ TransactionStep
SpecAudit == InitUsage /\ [][NextAudit]_vars

\* Client and billing webhook together, one webhook delivery at a time.
Init == InitUsage
Next == NextClient \/ WebhookStep({1})
Spec == Init /\ [][Next]_vars

---------------------------------------------------------------------------
\* Properties of the server routes.

\* A checkout event was written for user u.
CheckoutProcessed(u) == u \in Users /\ checkoutLog[u].deliveries > 0

\* The customer id of the checkout event written last for u.
LastCheckoutCustomer(u) ==
    IF CheckoutProcessed(u) THEN checkoutLog[u].customer ELSE NoCustomer

\* Webhook request w commits its checkout write in this step.
WebhookWrites(w) == wh[w].pc = "writing" /\ wh'[w].pc = "done"

\* C5: a webhook request whose signature verification fails is answered with
\* status 400, once, and the step that handles it changes no document of the
\* store, whatever event the body claims.
C5_InvalidSignatureRejected ==
    [][\A w \in Webhooks :
          (wh[w].verified # "failed" /\ wh'[w].verified = "failed")
              => /\ wh'[w].pc = "done"
                 /\ wh'[w].status = 400
                 /\ wh'[w].sent = 1
                 /\ store' = store]_vars

\* C5 witness: a request was refused for its signature while a usage record
\* exists in the store.
C5_Witness ==
    \E w \in Webhooks :
        /\ wh[w].verified = "failed" /\ wh[w].status = 400
        /\ store[ServerUsageDoc("u1")].exists

\* C6: the write of a verified checkout.session.completed event for user u and
\* customer c leaves u's record existing with isSubscribed = TRUE and
\* stripeCustomerId = c, keeps every other field of that record (the counters
\* among them) at its value, adds no other field, and changes no other document.
C6_CheckoutMergesIntoRecord ==
    [][\A w \in Webhooks :
          WebhookWrites(w) =>
              LET ref == ServerUsageDoc(wh[w].userId)
                  old == store[ref].data
                  new == store'[ref].data
              IN  /\ store'[ref].exists
                  /\ new.isSubscribed = TRUE
                  /\ new.stripeCustomerId = wh[w].customer
                  /\ DOMAIN new = DOMAIN old \cup {"isSubscribed", "stripeCustomerId"}
                  /\ \A f \in DOMAIN old \ {"isSubscribed", "stripeCustomerId"} :
                        new[f] = old[f]
                  /\ \A other \in DocPaths \ {ref} : store'[other] = store[other]]_vars

\* C6 witness: the event was processed for a record that held counters, and for
\* a user that had no record.
C6_Witness ==
    /\ store[ServerUsageDoc("u1")].exists
    /\ Has(store[ServerUsageDoc("u1")].data, "bidderChecks")
    /\ store[ServerUsageDoc("u1")].data.bidderChecks = 2
    /\ store[ServerUsageDoc("u1")].data.isSubscribed
    /\ store[ServerUsageDoc("u1")].data.stripeCustomerId = "cus_1"
    /\ store[ServerUsageDoc("u2")].exists
    /\ store[ServerUsageDoc("u2")].data.stripeCustomerId = "cus_2"
    /\ \A w \in Webhooks : wh[w].pc = "done" /\ wh[w].status = 200

\* C7: when the checkout event processed last for a user is delivered again,
\* the write of the second delivery leaves the whole store as it was.
C7_ReplayIsIdempotent ==
    [][\A w \in Webhooks :
          ( /\ WebhookWrites(w)
            /\ CheckoutProcessed(wh[w].userId)
            /\ LastCheckoutCustomer(wh[w].userId) = wh[w].customer )
              => store' = store]_vars

\* C7 witness: the same event was processed twice.
C7_Witness ==
    /\ \E u \in Users :
          /\ checkoutLog[u].deliveries = 2
          /\ checkoutLog[u].customer \in Customers
          /\ store[ServerUsageDoc(u)].data.stripeCustomerId = checkoutLog[u].customer
    /\ \A w \in Webhooks : wh[w].pc = "done" /\ wh[w].status = 200

\* C8: every webhook request whose handler has ended was answered exactly once:
\* with 400 when the signature verification failed, with an empty 200 when the
\* event was verified (whatever its type, user reference, the state of the
\* document store or the outcome of the store write).
C8_EveryVerifiedEventAcknowledged ==
    \A w \in Webhooks :
        (wh[w].pc \in {"done", "rejected"} /\ wh[w].verified # "none")
            => /\ wh[w].sent = 1
               /\ IF wh[w].verified = "failed"
                  THEN wh[w].status = 400
                  ELSE wh[w].status = 200 /\ wh[w].body = "empty"

\* No billing customer is on file for user u.
NoCustomerOnFile(u) == stripeCustomerIdOf(store[ServerUsageDoc(u)]) = NoCustomer

\* Portal request p takes a step that starts from before its lookup has
\* returned, for a user with no billing customer on file.
PortalStepWithoutCustomer(p) ==
    /\ portal'[p] # portal[p]
    /\ portal[p].pc \in {"idle", "reading"}
    /\ portal'[p].userId \in Users
    /\ NoCustomerOnFile(portal'[p].userId)

\* C9 as stated: a portal request for a user with no record or no customer id
\* is answered with 404 and makes no call to the billing provider.
C9_NotFoundAlways404 ==
    [][\A p \in Portals :
          PortalStepWithoutCustomer(p)
              => /\ portal'[p].calls = 0
                 /\ portal'[p].pc = "done" => portal'[p].status = 404]_vars

\* C9 amended: such a request makes no call to the billing provider and is
\* answered with 404 when the billing secret key is configured and the lookup
\* returns, and with 500 when the key is missing or the lookup throws.
C9_NotFoundWithoutProviderCall ==
    [][\A p \in Portals :
          PortalStepWithoutCustomer(p)
              => /\ portal'[p].calls = 0
                 /\ portal'[p].url = NoUrl
                 /\ portal'[p].pc \in {"reading", "done"}
                 /\ portal'[p].pc = "done" =>
                      IF ~config.STRIPE_SECRET_KEY
                      THEN /\ portal'[p].status = 500
                           /\ portal'[p].error = "Server missing Stripe Key"
                      ELSE IF portal'[p].error = "error.message"
                      THEN portal'[p].status = 500
                      ELSE /\ portal'[p].status = 404
                           /\ portal'[p].error = "No subscription found for this user."]_vars

\* C9 witness: a request for a user without customer id was answered 404 with
\* the key configured and the store initialised.
C9_Witness ==
    \E p \in Portals :
        /\ portal[p].pc = "done" /\ portal[p].status = 404 /\ portal[p].calls = 0
        /\ portal[p].userId \in Users
        /\ NoCustomerOnFile(portal[p].userId)
        /\ config.STRIPE_SECRET_KEY /\ config.adminApps

\* C10: once a checkout event for user u with customer id c was processed (and
\* is the last one processed for u), a portal request for u whose lookup
\* returns asks the provider for one session, of exactly c, and is not answered
\* with 404; and a portal request answered with 200 carries the provider's
\* session URL unchanged, for the customer it looked up.
C10_PortalUsesLinkedCustomer ==
    [][\A p \in Portals :
          /\ (portal[p].pc = "reading" /\ portal'[p].pc # "reading"
                 /\ LastCheckoutCustomer(portal[p].userId) \in Customers)
               => /\ portal'[p].status # 404
                  /\ portal'[p].error = "none"
                       => /\ portal'[p].pc = "creating"
                          /\ portal'[p].customer = LastCheckoutCustomer(portal[p].userId)
                          /\ portal'[p].calls = 1
          /\ (portal[p].pc = "creating" /\ portal'[p].pc # "creating")
               => /\ portal'[p].status \in {200, 500}
                  /\ portal'[p].customer = portal[p].customer
                  /\ portal'[p].calls = 1
                  /\ portal'[p].status = 200
                       => /\ portal'[p].url = portal'[p].sessionUrl
                          /\ portal'[p].url \in Urls]_vars

\* C10 witness: a portal request for a user linked by a checkout event got the
\* provider's URL for that customer.
C10_Witness ==
    \E p \in Portals :
        /\ portal[p].pc = "done" /\ portal[p].status = 200
        /\ portal[p].url = "https://billing/s2"
        /\ portal[p].customer = "cus_2"
        /\ LastCheckoutCustomer(portal[p].userId) = "cus_2"

\* C11: a step of a portal-session request, whatever its outcome (200, 404 or
\* 500), leaves every document of the store as it was.
C11_PortalLeavesStoreUnchanged ==
    [][\A p \in Portals : portal'[p] # portal[p] => store' = store]_vars

\* C11 witness: a portal request ended with 200 for a user whose record holds
\* counters, the subscription flag and the customer id.
C11_Witness ==
    \E p \in Portals :
        /\ portal[p].pc = "done" /\ portal[p].status = 200 /\ portal[p].calls = 1
        /\ portal[p].userId = "u1"
        /\ store[ServerUsageDoc("u1")].data =
               [initiatorChecks |-> 1, bidderChecks |-> 2, isSubscribed |-> TRUE,
                stripeCustomerId |-> "cus_1"]

\* C12: when the billing secret key is not configured, no portal request ever
\* has a store read or a provider call issued: it goes from received to
\* answered in one step, with 500 and the missing-key error, whoever the user.
C12_MissingKeyFailsFast ==
    ~config.STRIPE_SECRET_KEY =>
        \A p \in Portals :
            /\ portal[p].pc \in {"idle", "done"}
            /\ portal[p].calls = 0
            /\ portal[p].pc = "done" =>
                  /\ portal[p].status = 500
                  /\ portal[p].error = "Server missing Stripe Key"
                  /\ portal[p].url = NoUrl

\* C12 witness: without the key, a request for a user with no billing customer
\* on file was answered 500.
C12_Witness ==
    /\ ~config.STRIPE_SECRET_KEY
    /\ \E p \in Portals :
          /\ portal[p].pc = "done" /\ portal[p].status = 500
          /\ portal[p].userId \in Users
          /\ NoCustomerOnFile(portal[p].userId)

\* C13: with a secret or the store credential absent, /api/analyze and
\* /api/webhook still answer every request they have handled, once; no fetch is
\* issued to the generative-AI endpoint without its key; and no webhook handler
\* dies before it has verified the event (an unanswered request and an
\* unhandled rejection of the process).
C13_MissingSecretsDegradeGracefully ==
    /\ \A a \in Analyzes :
          /\ ~config.GOOGLE_API_KEY => an[a].calls = 0
          /\ an[a].pc = "done" => an[a].sent = 1 /\ an[a].status \in {200, 500}
    /\ \A w \in Webhooks :
          /\ ~(wh[w].pc = "rejected" /\ wh[w].verified = "none")
          /\ wh[w].pc = "done" => wh[w].sent = 1 /\ wh[w].status \in {200, 400}

\* C18: every /api/analyze request issues one fetch, never a second one, and
\* its handler ends with one response: status 200 with the provider's JSON
\* unchanged when the provider answered 2xx, status 500 with an error message
\* when the provider answered otherwise or the fetch failed.
C18_AnalyzeRelaysOnce ==
    \A a \in Analyzes :
        /\ an[a].calls = (IF an[a].pc = "idle" THEN 0 ELSE 1)
        /\ an[a].sent = (IF an[a].pc = "done" THEN 1 ELSE 0)
        /\ an[a].pc = "done" =>
              IF an[a].upstream = "ok"
              THEN /\ an[a].status = 200
                   /\ an[a].body = an[a].data /\ an[a].body \in Replies
                   /\ an[a].error = "none"
              ELSE /\ an[a].upstream \in {"notok", "failed"}
                   /\ an[a].status = 500
                   /\ an[a].body = NoReply
                   /\ an[a].error \in ErrorMessages \cup {"Google API Error", "error.message"}

\* C18 witness: one request relayed the provider's JSON, another one was
\* answered 500 after the provider refused without a message.
C18_Witness ==
    \E a, b \in Analyzes :
        /\ an[a].pc = "done" /\ an[a].status = 200 /\ an[a].body = "json-B"
        /\ an[b].pc = "done" /\ an[b].status = 500 /\ an[b].upstream = "notok"
        /\ an[b].error = "Google API Error"

\* C19: the step that handles a verified customer.subscription.deleted event
\* leaves isSubscribed = FALSE in every record that holds the event's customer
\* id.
C19_CancellationUnsubscribes ==
    [][\A w \in Webhooks :
          (wh[w].pc = "idle" /\ wh'[w].pc = "done" /\ wh'[w].cancelled \in Customers)
              => \A u \in Users :
                    stripeCustomerIdOf(store[ServerUsageDoc(u)]) = wh'[w].cancelled
                        => store'[ServerUsageDoc(u)].data.isSubscribed = FALSE]_vars

---------------------------------------------------------------------------
\* Properties of the client.

\* The gate as the specification states it: blocked iff bidderChecks >= limit
\* and not subscribed.
BlockedByRule(usage, limit) == usage.bidderChecks >= limit /\ usage.isSubscribed = FALSE

\* The usage records in view: each tab's usageLimits and the stored record as a
\* listener would hand it to the gate.
UsageInView ==
    {usageLimits[c] : c \in Clients}
        \cup (IF store[docRef].exists THEN {UsageFromSnapshot(store[docRef].data)} ELSE {})

\* C1: for every usage record in view, isTrialOver is true iff bidderChecks >=
\* FREE_TRIAL_LIMIT and isSubscribed is false; it is never true for a subscribed
\* record, and its value does not change with initiatorChecks.
C1_GateIsTheRule ==
    \A usage \in UsageInView :
        /\ isTrialOver(usage) <=> BlockedByRule(usage, FREE_TRIAL_LIMIT)
        /\ usage.isSubscribed => ~isTrialOver(usage)
        /\ \A i \in 0 .. NumIncs + 1 :
              isTrialOver([usage EXCEPT !.initiatorChecks = i]) = isTrialOver(usage)

\* C1 witness: a tab holds a subscribed record over the limit, another record
\* in view is at the limit and unsubscribed, and initiatorChecks is not zero.
C1_Witness ==
    \E c \in Clients :
        /\ usageLimits[c].isSubscribed /\ usageLimits[c].bidderChecks > FREE_TRIAL_LIMIT
        /\ usageLimits[c].initiatorChecks > 0
        /\ ~isTrialOver(usageLimits[c])

\* C2: while a tab's snapshot is blocked by the rule, no incrementUsage call is
\* started for that tab, and the step of handleAnalyze that opens the paywall
\* leaves the store and every incrementUsage call as they were.
C2_BlockedAuditCountsNothing ==
    [][\A c \in Clients :
          BlockedByRule(usageLimits[c], FREE_TRIAL_LIMIT)
              => /\ \A t \in Incs :
                       (inc[t].pc = "idle" /\ inc'[t].pc # "idle") => inc'[t].client # c
                 /\ (\/ isPaywallOpen'[c] # isPaywallOpen[c]
                     \/ (errorMessage'[c] # errorMessage[c]
                            /\ errorMessage'[c] = "Trial limit reached."))
                       => /\ store' = store
                          /\ inc' = inc
                          /\ isPaywallOpen'[c]]_vars

\* C2 witness: an audit was refused at the limit: the paywall is open, the
\* stored counter is still at the limit and no call was made.
C2_Witness ==
    \E c \in Clients :
        /\ isPaywallOpen[c] /\ errorMessage[c] = "Trial limit reached."
        /\ BlockedByRule(usageLimits[c], FREE_TRIAL_LIMIT)
        /\ store[docRef].data.bidderChecks = FREE_TRIAL_LIMIT
        /\ \A t \in Incs : inc[t].pc = "idle"

\* C3: when all NumIncs calls of incrementUsage on one counter, each made while
\* the usage document was absent, have committed, that counter is NumIncs.
C3_NoLostUpdate ==
    \A k \in RoleKeys :
        (\A t \in Incs : inc[t].pc = "done" /\ inc[t].roleKey = k /\ inc[t].absentAtCall)
            => /\ store[docRef].exists
               /\ CountOf(store[docRef].data, k) = NumIncs

\* C4: from one state of the store to the next, no counter of an existing usage
\* record decreases and no record disappears.
C4_CountersNeverDecrease ==
    [][\A ref \in DocPaths : \A k \in RoleKeys :
          store[ref].exists
              => /\ store'[ref].exists
                 /\ CountOf(store'[ref].data, k) >= CountOf(store[ref].data, k)]_vars

\* C14: once a first audit, made on a record with bidderChecks one below the
\* limit and isSubscribed false by a tab that had received that record, has
\* committed and the record stands at the limit, a further audit does not pass
\* the gate: no call of incrementUsage is started and the counter stays at the
\* limit.
C14_SecondAuditBlocked ==
    [][\A t \in Incs \ {1} :
          ( /\ inc[1].pc = "done" /\ ~inc[1].absentAtCall
            /\ store[docRef].exists
            /\ store[docRef].data.bidderChecks = FREE_TRIAL_LIMIT
            /\ ~SubscribedOf(store[docRef].data)
            /\ \A c \in Clients :
                  listener[c].ready /\ usageLimits[c].bidderChecks >= FREE_TRIAL_LIMIT - 1
            /\ inc[t].pc = "idle" )
              => /\ inc'[t].pc = "idle"
                 /\ store'[docRef] = store[docRef]]_vars

\* C15: once a verified checkout event for the signed-in user was written by
\* the webhook, the document the client's gate reads exists and has
\* isSubscribed = TRUE.
C15_CheckoutReachesClientRecord ==
    CheckoutProcessed(ClientUser)
        => /\ store[getUsageDocRef(ClientUser)].exists
           /\ SubscribedOf(store[getUsageDocRef(ClientUser)].data)

\* C16: the step in which the transaction of an incrementUsage call aborts
\* leaves the store as it was, ends the call without another attempt, and
\* settles the call for its caller as an error.
C16_AbortReportedToCaller ==
    [][\A t \in Incs :
          (inc[t].pc \in {"get", "commit"} /\ inc'[t].pc = "failed")
              => /\ store' = store
                 /\ inc'[t].currentData = NoData
                 /\ inc'[t].promise = "rejected"]_vars

\* C17: the commit of an incrementUsage(counterKey) transaction on an absent
\* record creates the record with counterKey = 1, the other counter 0 and
\* isSubscribed FALSE, in that one step and whether or not the listener's
\* initial write was ever applied.
C17_IncrementCreatesRecord ==
    [][\A t \in Incs :
          (inc[t].pc = "commit" /\ inc'[t].pc = "done" /\ ~store[docRef].exists)
              => /\ store'[docRef].exists
                 /\ DOMAIN store'[docRef].data =
                        {"initiatorChecks", "bidderChecks", "isSubscribed"}
                 /\ \A k \in RoleKeys :
                        store'[docRef].data[k] = (IF k = inc[t].roleKey THEN 1 ELSE 0)
                 /\ store'[docRef].data.isSubscribed = FALSE]_vars

\* C17 witness: the record was created by an incrementUsage('initiatorChecks')
\* call made on the absent record, no initial write of a tab is under way, and
\* the tabs have received the created record.
C17_Witness ==
    /\ store[docRef].exists
    /\ store[docRef].data =
           [initiatorChecks |-> 1, bidderChecks |-> 0, isSubscribed |-> FALSE]
    /\ \E t \in Incs : inc[t].pc = "done" /\ inc[t].absentAtCall
                          /\ inc[t].roleKey = "initiatorChecks"
    /\ \A t \in Incs : inc[t].pc \in {"done", "idle"}
    /\ \A c \in Clients : listener[c].ready /\ ~listener[c].initWrite
    /\ \A c \in Clients : usageLimits[c] = store[docRef].data

\* The stored record as the client reads it: isSubscribed false when the field
\* is missing, the all-zero default when there is no record.
RecordAsRead(userDoc) ==
    IF userDoc.exists
    THEN [f \in DOMAIN userDoc.data \cup {"isSubscribed"} |->
            IF f = "isSubscribed"
            THEN Has(userDoc.data, f) /\ userDoc.data[f]
            ELSE userDoc.data[f]]
    ELSE [initiatorChecks |-> 0, bidderChecks |-> 0, isSubscribed |-> FALSE]

---------------------------------------------------------------------------
\* Properties of the page's stored layout and report history.

\* The per-application prefix of a path: artifacts/{appId}.
Namespace(path) == SubSeq(path, 1, 2)

\* C21: whatever __app_id the page has, defined or not, the report collection
\* a tab listens to lies under the same per-application prefix as the usage
\* document the tab listens to.
C21_SameNamespace ==
    \A c \in Clients :
        listener[c].ready /\ reportsListener[c].active
            => Namespace(reportsListener[c].ref) = Namespace(docRef)

---------------------------------------------------------------------------
\* Properties of the counter under several audits.

\* A tab shows an unsubscribed usage record it received in a snapshot, with
\* audits counted (not the zeros a tab starts with), whose trial is not over.
HoldsOpenSnapshot(c) ==
    /\ listener[c].ready
    /\ usageLimits[c].bidderChecks > 0
    /\ ~isTrialOver(usageLimits[c])

\* C22: while the record is unsubscribed, the committed increment of an audit
\* made by a tab whose gate is open on the snapshot it holds, which may lag
\* the store, does not take bidderChecks above the trial limit.
C22_TrialLimitNeverExceeded ==
    [][\A t \in Incs :
          ( /\ TxnCommit(t) /\ inc[t].roleKey = "bidderChecks"
            /\ HoldsOpenSnapshot(inc[t].client)
            /\ store[docRef].exists /\ ~SubscribedOf(store[docRef].data)
            /\ CountOf(store[docRef].data, "bidderChecks") <= FREE_TRIAL_LIMIT )
              => CountOf(store'[docRef].data, "bidderChecks") <= FREE_TRIAL_LIMIT]_vars

\* C23: when the listener's initialising write (issued after it saw the record
\* absent) is applied to a record that exists by then, the record keeps its
\* counters and its subscription flag: nothing committed in between is reset
\* to the all-zero, unsubscribed default.
C23_InitWriteKeepsExistingRecord ==
    [][\A c \in Clients :
          InitWriteApply(c) /\ store[docRef].exists
              => /\ \A k \in RoleKeys :
                      CountOf(store'[docRef].data, k) = CountOf(store[docRef].data, k)
                 /\ SubscribedOf(store'[docRef].data) = SubscribedOf(store[docRef].data)]_vars

\* The record a transaction reads: the stored one, or the default when the
\* document is absent.
AsRead(userDoc) == IF userDoc.exists THEN userDoc.data ELSE initialData

\* C24: a committed incrementUsage(counterKey) writes the record it read in
\* its transaction with that counter raised by exactly 1 (a missing counter
\* counts as 0) and every other field of the record (the other counter,
\* isSubscribed, the billing customer id) as it was read; the record read is
\* the one in the store when the transaction commits.
C24_IncrementChangesOneCounter ==
    [][\A t \in Incs :
          TxnCommit(t)
              => LET k == inc[t].roleKey
                     read == inc[t].currentData
                     written == store'[docRef].data
                 IN  /\ read = AsRead(store[docRef])
                     /\ store'[docRef].exists
                     /\ CountOf(written, k) = CountOf(read, k) + 1
                     /\ DOMAIN written = (DOMAIN read) \cup {k}
                     /\ \A f \in (DOMAIN read) \ {k} : written[f] = read[f]]_vars

\* An increment of each counter was committed on the record linked to a
\* customer: both counters are one up, the flag and the customer id stand.
C24_Witness ==
    /\ \A t \in Incs : inc[t].pc = "done"
    /\ store[docRef] = Doc([LinkedRecord EXCEPT !.initiatorChecks = 2, !.bidderChecks = 4])

---------------------------------------------------------------------------
\* Properties of fetchWithRetry.

AllFailed(log) == \A k \in 1 .. Len(log) : log[k] \in Failures

\* C25: called with maxRetries >= 1, fetchWithRetry makes at most maxRetries
\* attempts; an attempt follows failed attempts only (a response that is not
\* ok, or a fetch that threw), so none follows a response that is ok; it
\* returns exactly when an attempt's response is ok, and then that response;
\* it throws exactly when maxRetries attempts have failed, and then the error
\* of the last of them; and every call ends, returning or throwing.
C25_RetriesAreBounded ==
    /\ [](fetchCall.maxRetries >= 1 =>
            LET log == fetchCall.log
                n == Len(log)
            IN  /\ n <= fetchCall.maxRetries
                /\ AllFailed(SubSeq(log, 1, n - 1))
                /\ fetchCall.pc = "returned"
                     <=> (n >= 1 /\ log[n] = "ok")
                /\ fetchCall.pc = "returned"
                     => fetchCall.result =
                          [kind |-> "response", attempt |-> n, cause |-> "ok"]
                /\ fetchCall.pc = "thrown"
                     <=> (n = fetchCall.maxRetries /\ AllFailed(log))
                /\ fetchCall.pc = "thrown"
                     => fetchCall.result =
                          [kind |-> "error", attempt |-> n, cause |-> log[n]])
    /\ (fetchCall.pc # "idle") ~> (fetchCall.pc \in {"returned", "thrown"})

\* Three attempts were made and failed, each in its own way: the call threw
\* the third error.
C25_Witness ==
    /\ fetchCall.maxRetries = DEFAULT_MAX_RETRIES
    /\ fetchCall.pc = "thrown"
    /\ fetchCall.log = <<"http-500", "network", "http-429">>
    /\ fetchCall.result.cause = "http-429"

---------------------------------------------------------------------------
\* Properties of the report history.

\* C27: while a user who is not an administrator is logged in, every report
\* of the tab's history has that user's login as its owner and the history runs
\* from the newest timestamp to the oldest; while no user is logged in or the
\* store is not ready the history is empty.  So no report of a user logged in
\* before is in the history once another user is logged in.
C27_HistoryIsTheUsersOwn ==
    \A c \in Clients :
        LET user == currentUser[c]
            history == reportsHistory[c]
        IN  /\ user # NoLogin /\ roleOf(user) # "ADMIN"
                 => /\ \A k \in 1 .. Len(history) : history[k].userLogin = user
                    /\ \A k \in 1 .. Len(history) - 1 :
                          timestampOrZero(history[k]) >= timestampOrZero(history[k + 1])
            /\ user = NoLogin \/ ~listener[c].ready => history = <<>>

==========================================================================
